---- MODULE Spec2Model ----
(***************************************************************************)
(* Model of main.py: the single-column search over spreadsheet workbooks.  *)
(*                                                                         *)
(*   SpecSearch  search_sheet_optimized on one sheet, one rule group per   *)
(*               step (lines 108-222)                                      *)
(*   SpecRules   the rule index built in main (lines 416-453)              *)
(*   Spec        main's batch loop and process_excel_file (lines 224-519)  *)
(*                                                                         *)
(* Text is a sequence of one-character strings so that str(), strip() and  *)
(* lower() are computed, not assumed.  Cell values are what the            *)
(* spreadsheet collaborator hands back: None, a float or a text.           *)
(***************************************************************************)
EXTENDS Integers, Sequences, FiniteSets, TLC

(***************************************************************************)
(* Bounds of the model.                                                    *)
(***************************************************************************)
MaxUsedRows == 2
MaxRulesPerGroup == 2
MaxRules == 3
MaxFiles == 2
MaxLabelLen == 2

(***************************************************************************)
(* Python values and the text operations the code applies to them.         *)
(***************************************************************************)
None == [t |-> "none", s |-> <<>>, n |-> 0]
Num(k) == [t |-> "num", s |-> <<>>, n |-> k]
Text(chars) == [t |-> "str", s |-> chars, n |-> 0]

\* Python truth value: None, 0.0 and "" are falsy (the tests `not search_val`, `if col_val`).
Truthy(v) ==
    CASE v.t = "none" -> FALSE
      [] v.t = "num" -> v.n # 0
      [] OTHER -> Len(v.s) > 0

\* str(v): "None" for None, the float's repr for a number, the text itself.
Str(v) ==
    CASE v.t = "none" -> <<"N", "o", "n", "e">>
      [] v.t = "num" -> <<IF v.n = 0 THEN "0" ELSE "1", ".", "0">>
      [] OTHER -> v.s

IsSpace(c) == c = " "

RECURSIVE LStrip(_)
LStrip(s) == IF s # <<>> /\ IsSpace(Head(s)) THEN LStrip(Tail(s)) ELSE s

RECURSIVE RStrip(_)
RStrip(s) ==
    IF s # <<>> /\ IsSpace(s[Len(s)]) THEN RStrip(SubSeq(s, 1, Len(s) - 1)) ELSE s

\* str.strip()
Strip(s) == RStrip(LStrip(s))

LowerChar(c) ==
    CASE c = "A" -> "a"
      [] c = "B" -> "b"
      [] c = "N" -> "n"
      [] c = "X" -> "x"
      [] OTHER -> c

\* str.lower()
Lower(s) == [i \in 1..Len(s) |-> LowerChar(s[i])]

\* str(x).strip().lower(), the normal form both sides of the comparison get.
Normalize(v) == Lower(Strip(Str(v)))

Min(a, b) == IF a < b THEN a ELSE b

(***************************************************************************)
(* Ordered dictionaries (Python dicts keep insertion order) as sequences   *)
(* of [key, val] entries.                                                  *)
(***************************************************************************)
DictHas(d, k) == \E i \in 1..Len(d) : d[i].key = k

DictGet(d, k) == d[CHOOSE i \in 1..Len(d) : d[i].key = k].val

\* d[k] = v: replaces the entry in place, or appends a new one at the end.
DictSet(d, k, v) ==
    IF DictHas(d, k)
    THEN [i \in 1..Len(d) |-> IF d[i].key = k THEN [key |-> k, val |-> v] ELSE d[i]]
    ELSE Append(d, [key |-> k, val |-> v])

(***************************************************************************)
(* Column addressing.  A column label is a sequence of letters.            *)
(***************************************************************************)
Letters ==
    <<"A", "B", "C", "D", "E", "F", "G", "H", "I", "J", "K", "L", "M",
      "N", "O", "P", "Q", "R", "S", "T", "U", "V", "W", "X", "Y", "Z">>

LowerLetters ==
    <<"a", "b", "c", "d", "e", "f", "g", "h", "i", "j", "k", "l", "m",
      "n", "o", "p", "q", "r", "s", "t", "u", "v", "w", "x", "y", "z">>

\* ord(c) for a letter: 65..90 for A..Z, 97..122 for a..z
Ord(c) ==
    IF \E i \in 1..26 : Letters[i] = c
    THEN 64 + (CHOOSE i \in 1..26 : Letters[i] = c)
    ELSE 96 + (CHOOSE i \in 1..26 : LowerLetters[i] = c)

UpperChar(c) ==
    IF \E i \in 1..26 : LowerLetters[i] = c
    THEN Letters[CHOOSE i \in 1..26 : LowerLetters[i] = c]
    ELSE c

\* The conversion to upper case left out.
Upper_Skipped(s) == s

\* col_letter.upper()
Upper(s) == [i \in 1..Len(s) |-> UpperChar(s[i])]

\* ord(char) - ord('A') + 1
LetterValue(c) == Ord(c) - Ord("A") + 1

RECURSIVE ColumnAccumulate(_, _)
ColumnAccumulate(result, col_letter) ==
    IF col_letter = <<>>
    THEN result
    ELSE ColumnAccumulate(result * 26 + LetterValue(Head(col_letter)), Tail(col_letter))

column_letter_to_index(col_letter) == ColumnAccumulate(0, Upper(col_letter)) - 1

(***************************************************************************)
(* The sheet as the collaborator shows it: a name, the used range's row    *)
(* count and the cells by (1-based) column number.                         *)
(***************************************************************************)
CellAt(sh, r, c) ==
    IF c \in DOMAIN sh.cells /\ r \in 1..Len(sh.cells[c]) THEN sh.cells[c][r] ELSE None

\* sheet.range((1, c), (n, c)).value: a bare value for a single cell, a list otherwise.
RangeValue(sh, n, c) ==
    IF n = 1
    THEN [list |-> FALSE, v |-> CellAt(sh, 1, c)]
    ELSE [list |-> TRUE, v |-> [r \in 1..n |-> CellAt(sh, r, c)]]

\* if not isinstance(values, list): values = [values]
EnsureList(x) == IF x.list THEN x.v ELSE <<x.v>>

ReadColumn(sh, col, n) == EnsureList(RangeValue(sh, n, column_letter_to_index(col) + 1))

\* The limit forgotten: every used row is read.
RowsToProcess_AllRows(rows, mr) == rows

\* rows_to_process = min(rows, max_rows)
RowsToProcess(rows, mr) == Min(rows, mr)

SeqRange(s) == {s[i] : i \in 1..Len(s)}

\* all_log_columns: the union of the group's log_columns
AllLogColumns(rule_group) == UNION {SeqRange(rule_group[i].log_columns) : i \in 1..Len(rule_group)}

LogColumnData(sh, rule_group, n) ==
    [lc \in AllLogColumns(rule_group) |-> ReadColumn(sh, lc, n)]

\* search_lookup: normalized search value -> the rules expecting it, in group order
RECURSIVE BuildLookup(_)
BuildLookup(rule_group) ==
    IF rule_group = <<>>
    THEN <<>>
    ELSE LET before == BuildLookup(SubSeq(rule_group, 1, Len(rule_group) - 1))
             rule == rule_group[Len(rule_group)]
             key == Normalize(rule.search_value)
             info == [rule_name |-> rule.rule_name, log_columns |-> rule.log_columns]
             sofar == IF DictHas(before, key) THEN DictGet(before, key) ELSE <<>>
         IN DictSet(before, key, Append(sofar, info))

\* str(col_val).strip() if col_val else ""
LoggedCell(col_val) == IF Truthy(col_val) THEN Strip(Str(col_val)) ELSE <<>>

\* logged_values: one key per column of the rule's log_columns
RECURSIVE LoggedValues(_, _, _)
LoggedValues(log_columns, log_column_data, row_idx) ==
    IF log_columns = <<>>
    THEN <<>>
    ELSE LET lc == log_columns[Len(log_columns)]
             before == LoggedValues(SubSeq(log_columns, 1, Len(log_columns) - 1),
                                    log_column_data, row_idx)
         IN (lc :> LoggedCell(log_column_data[lc][row_idx])) @@ before

\* The tuples appended for one row.  row and col are not part of the tuple: they
\* record where it came from, so that properties can speak of it.
RowMatches(sh, search_col, search_values, log_column_data, search_lookup, row_idx) ==
    LET search_val == search_values[row_idx]
        search_val_str == Strip(Str(search_val))
        search_val_normalized == Lower(search_val_str)
    IN IF ~Truthy(search_val)
       THEN <<>>
       ELSE IF DictHas(search_lookup, search_val_normalized)
            THEN LET infos == DictGet(search_lookup, search_val_normalized)
                 IN [i \in 1..Len(infos) |->
                        [rule_name |-> infos[i].rule_name,
                         sheet_name |-> sh.name,
                         search_val |-> search_val_str,
                         logged_values |-> LoggedValues(infos[i].log_columns,
                                                        log_column_data, row_idx),
                         row |-> row_idx,
                         col |-> search_col]]
            ELSE <<>>

RECURSIVE ScanRows(_, _, _, _, _, _)
ScanRows(sh, search_col, search_values, log_column_data, search_lookup, upto) ==
    IF upto = 0
    THEN <<>>
    ELSE ScanRows(sh, search_col, search_values, log_column_data, search_lookup, upto - 1)
         \o RowMatches(sh, search_col, search_values, log_column_data, search_lookup, upto)

\* One pass of the group loop's body when nothing raises.
GroupMatches(sh, search_col, rule_group, n) ==
    LET search_values == ReadColumn(sh, search_col, n)
    IN ScanRows(sh, search_col, search_values, LogColumnData(sh, rule_group, n),
                BuildLookup(rule_group), Len(search_values))

\* The reads made lazily inside the row loop: a failure then comes after the first
\* row's tuples were appended.
GroupResult_PartialOnRaise(outcome, sh, search_col, rule_group, n) ==
    LET all == GroupMatches(sh, search_col, rule_group, n)
    IN IF outcome = "ok" THEN all ELSE SubSeq(all, 1, Min(1, Len(all)))

\* A failure of the group (column conversion, a range read) is raised before the row
\* loop starts and caught by the group's except clause: nothing was appended yet.
GroupResult(outcome, sh, search_col, rule_group, n) ==
    IF outcome = "ok" THEN GroupMatches(sh, search_col, rule_group, n) ELSE <<>>

VARIABLES
    \* search_sheet_optimized
    sheet, rules_by_search_column, max_rows, s_pc, rows_to_process, gi, matches,
    failed_cols

VARIABLES
    \* main
    CONFIG, excel_files, m_pc, idx, sheet_rules, rule_count, app, apps, file_i,
    total_matches,
    \* process_excel_file: its locals and its position
    pf,
    \* history: the files passed to process_excel_file, and how each call ended
    calls, outcomes

VARIABLES
    \* column_letter_to_index: the label passed and the index returned; col_label is
    \* the label in upper case and col_rank its place in spreadsheet order
    col_letter, col_index, col_pc, col_label, col_rank

cvars == <<col_letter, col_index, col_pc, col_label, col_rank>>

svars == <<sheet, rules_by_search_column, max_rows, s_pc, rows_to_process, gi,
           matches, failed_cols, cvars>>

mvars == <<CONFIG, excel_files, m_pc, idx, sheet_rules, rule_count, app, apps, file_i,
           total_matches, pf, calls, outcomes, cvars>>

vars == <<svars, mvars>>

(***************************************************************************)
(* Inputs of search_sheet_optimized.                                       *)
(***************************************************************************)
ColA == <<"A">>
ColC == <<"C">>

\* Rows of a sheet: the search column A and the column C.
RowKinds ==
    { [A |-> None,                  C |-> Text(<<" ", "x", " ">>)],
      [A |-> Text(<<" ">>),         C |-> Text(<<" ", "x", " ">>)],
      [A |-> Text(<<"A", " ">>),    C |-> None],
      [A |-> Text(<<"A", " ">>),    C |-> Num(0)],
      [A |-> Num(0),                C |-> Text(<<" ", "x", " ">>)],
      [A |-> Text(<<"b">>),         C |-> Text(<<"X">>)] }

SheetOf(name, rows) ==
    [name |-> name,
     rows |-> Len(rows),
     cells |-> (1 :> [r \in 1..Len(rows) |-> rows[r].A]) @@
               (3 :> [r \in 1..Len(rows) |-> rows[r].C])]

SeqsUpTo(S, n) == UNION {[1..k -> S] : k \in 1..n}

\* What a rule of the group on column A asks for.
RuleKinds ==
    { [search_value |-> Text(<<" ", "A">>),  log_columns |-> <<ColA, ColC>>],
      [search_value |-> Text(<<"a">>),       log_columns |-> <<>>],
      [search_value |-> Text(<<>>),          log_columns |-> <<ColC>>],
      [search_value |-> Text(<<"0", ".", "0">>), log_columns |-> <<ColC>>] }

RuleNames == <<"R1", "R2", "R3", "R4">>

Named(kinds) ==
    [i \in 1..Len(kinds) |->
        [rule_name |-> RuleNames[i],
         search_value |-> kinds[i].search_value,
         log_columns |-> kinds[i].log_columns]]

\* The group on column C that every configuration carries after the group on A.
GroupOnC == <<[rule_name |-> "RC", search_value |-> Text(<<"x">>), log_columns |-> <<ColA>>]>>

\* process_excel_file before a call: the locals of lines 243-245 and 268-269.
NoCall ==
    [pc |-> "idle", file |-> 0, app |-> 0, supplied |-> FALSE, wb |-> "none",
     all_matches |-> <<>>, app_created |-> FALSE,
     calc_prev |-> "None", events_prev |-> "None", sheet_i |-> 0,
     failure |-> "none", propagates |-> FALSE,
     instance_created |-> FALSE, close_attempts |-> 0, quit_attempts |-> 0,
     entry_calc |-> "None", entry_events |-> "None", api_raised |-> FALSE]

\* No conversion of a column label is looked at on its own.
ColumnIdle ==
    /\ col_letter = <<>>
    /\ col_index = 0
    /\ col_pc = "idle"
    /\ col_label = <<>>
    /\ col_rank = 0

\* The program's state while only search_sheet_optimized is looked at.
MainIdle ==
    /\ ColumnIdle
    /\ CONFIG = [search_rules |-> <<>>]
    /\ excel_files = <<>>
    /\ m_pc = "idle"
    /\ idx = 0
    /\ sheet_rules = <<>>
    /\ rule_count = 0
    /\ app = 0
    /\ apps = <<>>
    /\ file_i = 0
    /\ total_matches = 0
    /\ pf = NoCall
    /\ calls = <<>>
    /\ outcomes = <<>>

SearchInit ==
    /\ \E rows \in SeqsUpTo(RowKinds, MaxUsedRows) : sheet = SheetOf("S1", rows)
    /\ \E kinds \in SeqsUpTo(RuleKinds, MaxRulesPerGroup) :
          rules_by_search_column =
              <<[key |-> ColA, val |-> Named(kinds)], [key |-> ColC, val |-> GroupOnC]>>
    /\ max_rows \in 1..MaxUsedRows
    /\ s_pc = "start"
    /\ rows_to_process = 0
    /\ gi = 0
    /\ matches = <<>>
    /\ failed_cols = {}
    /\ MainIdle

\* Lines 129-138: the used range; it may be None or the read may raise, and then the
\* function returns the empty list.
SearchBegin ==
    /\ s_pc = "start"
    /\ \E used_range \in {"shape", "none", "raise"} :
          IF used_range = "shape"
          THEN /\ rows_to_process' = RowsToProcess(sheet.rows, max_rows)
               /\ gi' = 1
               /\ s_pc' = "groups"
          ELSE /\ s_pc' = "aborted"
               /\ UNCHANGED <<rows_to_process, gi>>
    /\ UNCHANGED <<sheet, rules_by_search_column, max_rows, matches, failed_cols>>
    /\ UNCHANGED mvars

\* Lines 141-214: one iteration of the loop over rules_by_search_column.items().
SearchGroup ==
    /\ s_pc = "groups"
    /\ gi <= Len(rules_by_search_column)
    /\ \E outcome \in {"ok", "raise"} :
          LET g == rules_by_search_column[gi]
          IN /\ matches' = matches \o GroupResult(outcome, sheet, g.key, g.val, rows_to_process)
             /\ failed_cols' = IF outcome = "ok" THEN failed_cols ELSE failed_cols \cup {g.key}
    /\ gi' = gi + 1
    /\ UNCHANGED <<sheet, rules_by_search_column, max_rows, s_pc, rows_to_process>>
    /\ UNCHANGED mvars

\* Line 216: return matches
SearchReturn ==
    /\ s_pc = "groups"
    /\ gi > Len(rules_by_search_column)
    /\ s_pc' = "done"
    /\ UNCHANGED <<sheet, rules_by_search_column, max_rows, rows_to_process, gi,
                   matches, failed_cols>>
    /\ UNCHANGED mvars

SearchNext == SearchBegin \/ SearchGroup \/ SearchReturn

SpecSearch == SearchInit /\ [][SearchNext]_vars


(***************************************************************************)
(* Properties of search_sheet_optimized.                                   *)
(***************************************************************************)
SearchColumnCell(col, r) == CellAt(sheet, r, column_letter_to_index(col) + 1)

RecordsAt(col, r) == SelectSeq(matches, LAMBDA m : m.col = col /\ m.row = r)

NamesOf(records) == [i \in 1..Len(records) |-> records[i].rule_name]

\* The names of the group's rules whose normalized search value is that of the cell.
ExpectedNames(rule_group, cell) ==
    NamesOf(SelectSeq(rule_group,
                      LAMBDA rule : Normalize(rule.search_value) = Normalize(cell)))

IsEmptyCell(cell) == cell = None \/ cell = Text(<<>>)

IsBlankCell(cell) == cell = None \/ (cell.t = "str" /\ Strip(cell.s) = <<>>)

\* C1: when the search has returned, for every rule group that was read without
\* error and every scanned row whose search-column cell is not empty, the records
\* of that row are exactly one per rule of the group whose normalized search value
\* equals the normalized text of the cell, each under that rule's name, in group
\* order.
C1_OneRecordPerMatchingRule ==
    s_pc = "done" =>
        \A g \in 1..Len(rules_by_search_column) :
            LET grp == rules_by_search_column[g]
            IN grp.key \notin failed_cols =>
                  \A r \in 1..rows_to_process :
                      ~IsEmptyCell(SearchColumnCell(grp.key, r)) =>
                          NamesOf(RecordsAt(grp.key, r))
                              = ExpectedNames(grp.val, SearchColumnCell(grp.key, r))

\* C2: a row whose search-column cell is empty, missing or whitespace-only never
\* has a match record, whatever the rules and the other columns are.
C2_BlankPrimaryNeverMatches ==
    \A g \in 1..Len(rules_by_search_column) :
        \A r \in 1..sheet.rows :
            IsBlankCell(SearchColumnCell(rules_by_search_column[g].key, r)) =>
                RecordsAt(rules_by_search_column[g].key, r) = <<>>

RuleNamed(col, name) ==
    LET rule_group == DictGet(rules_by_search_column, col)
    IN rule_group[CHOOSE i \in 1..Len(rule_group) : rule_group[i].rule_name = name]

\* The trimmed text of a cell, "" for an empty one.
TrimmedText(cell) == IF IsEmptyCell(cell) THEN <<>> ELSE Strip(Str(cell))

\* C3: every match record has one logged entry for each column of its rule's
\* log_columns and for no other column, and the entry is the trimmed text of the
\* cell at the matching row, "" when the cell is empty.
C3_LoggedColumnsAreTrimmedText ==
    \A i \in 1..Len(matches) :
        LET m == matches[i]
            rule == RuleNamed(m.col, m.rule_name)
        IN /\ DOMAIN m.logged_values = SeqRange(rule.log_columns)
           /\ \A lc \in SeqRange(rule.log_columns) :
                 m.logged_values[lc] = TrimmedText(SearchColumnCell(lc, m.row))

\* C4: no match record comes from a row beyond min(used rows, max_rows).
C4_OnlyFirstRowsInspected ==
    \A i \in 1..Len(matches) :
        /\ matches[i].row <= max_rows
        /\ matches[i].row <= sheet.rows

\* A row beyond max_rows holds a value that matches a rule of its group, and the
\* search has finished with every group read.
C4_Witness ==
    /\ s_pc = "done"
    /\ failed_cols = {}
    /\ matches # <<>>
    /\ \E r \in (max_rows + 1)..sheet.rows :
          LET cell == SearchColumnCell(ColA, r)
          IN /\ Truthy(cell)
             /\ ExpectedNames(DictGet(rules_by_search_column, ColA), cell) # <<>>

RECURSIVE MatchesOfGroups(_, _, _)
MatchesOfGroups(sh, groups, n) ==
    IF groups = <<>>
    THEN <<>>
    ELSE GroupMatches(sh, Head(groups).key, Head(groups).val, n)
         \o MatchesOfGroups(sh, Tail(groups), n)

\* The configuration with the failed groups left out.
WithoutFailed == SelectSeq(rules_by_search_column, LAMBDA grp : grp.key \notin failed_cols)

\* C8: when the search has returned, a group whose processing failed has no record
\* in the result, and the result is the one the search gives for the configuration
\* without the failed groups.
C8_FailedGroupOnlyLosesItsOwn ==
    s_pc = "done" =>
        /\ \A i \in 1..Len(matches) : matches[i].col \notin failed_cols
        /\ matches = MatchesOfGroups(sheet, WithoutFailed, rows_to_process)

\* The group on A failed although its rows match, and the group on C gave records.
C8_Witness ==
    /\ s_pc = "done"
    /\ failed_cols = {ColA}
    /\ GroupMatches(sheet, ColA, DictGet(rules_by_search_column, ColA), rows_to_process) # <<>>
    /\ matches # <<>>

(***************************************************************************)
(* main: the rule index (lines 416-453).                                   *)
(***************************************************************************)
\* rule.get(key, default): a configured rule is its present keys and their values.
Get(rule, key, default) == IF key \in rule.keys THEN rule[key] ELSE default

Digits == <<"0", "1", "2", "3", "4", "5", "6", "7", "8", "9">>

\* The decimal text of a natural number, as the f-string formats it.
RECURSIVE Decimal(_)
Decimal(n) ==
    IF n < 10 THEN <<Digits[n + 1]>> ELSE Decimal(n \div 10) \o <<Digits[(n % 10) + 1]>>

\* The rules numbered from zero.
AutoNameNumber_ZeroBased(i) == i

\* idx + 1 in f"Rule {idx + 1}"
AutoNameNumber(i) == i + 1

\* f"Rule {idx + 1}"
AutoName(i) == <<"R", "u", "l", "e", " ">> \o Decimal(AutoNameNumber(i))

\* Lines 436-448: the sheet's dictionary and the column's list are created on first
\* use, and the rule is appended to the column's list.
AddRule(sr, sheet_name, search_col, entry) ==
    LET sr1 == IF DictHas(sr, sheet_name) THEN sr ELSE DictSet(sr, sheet_name, <<>>)
        by_col == DictGet(sr1, sheet_name)
        by_col1 == IF DictHas(by_col, search_col) THEN by_col ELSE DictSet(by_col, search_col, <<>>)
    IN DictSet(sr1, sheet_name,
               DictSet(by_col1, search_col, Append(DictGet(by_col1, search_col), entry)))

\* The stand-in for a missing sheet name (None): falsy, like "".
NoSheet == ""

\* Lines 420-449: one iteration of the loop over enumerate(search_rules_config).
BuildRule ==
    /\ m_pc = "rules"
    /\ idx < Len(CONFIG.search_rules)
    /\ LET rule == CONFIG.search_rules[idx + 1]
           sheet_name == Get(rule, "sheet_name", NoSheet)
           entry == [rule_name |-> Get(rule, "name", AutoName(idx)),
                     search_value |-> rule.search_value,
                     log_columns |-> Get(rule, "log_columns", <<>>)]
       IN IF ~Get(rule, "enabled", TRUE) \/ sheet_name = ""
          THEN UNCHANGED <<sheet_rules, rule_count>>
          ELSE /\ sheet_rules' = AddRule(sheet_rules, sheet_name, rule.search_column, entry)
               /\ rule_count' = rule_count + 1
    /\ idx' = idx + 1
    /\ UNCHANGED <<CONFIG, excel_files, m_pc, app, apps, file_i, total_matches, pf,
                   calls, outcomes>>
    /\ UNCHANGED svars

\* The test left out: the run goes on with an empty index.
NoRulesFound_Never(sr) == FALSE

\* Line 451: if not sheet_rules
NoRulesFound(sr) == sr = <<>>

\* Lines 451-455: after the loop, return when the index is empty.
CheckRules ==
    /\ m_pc = "rules"
    /\ idx = Len(CONFIG.search_rules)
    /\ m_pc' = IF NoRulesFound(sheet_rules) THEN "aborted" ELSE "start_excel"
    /\ UNCHANGED <<CONFIG, excel_files, idx, sheet_rules, rule_count, app, apps, file_i,
                   total_matches, pf, calls, outcomes>>
    /\ UNCHANGED svars

\* The program's state while main is looked at: no search of its own is in progress.
SearchIdle ==
    /\ sheet = [name |-> "", rows |-> 0, cells |-> <<>>]
    /\ rules_by_search_column = <<>>
    /\ max_rows = 0
    /\ s_pc = "idle"
    /\ rows_to_process = 0
    /\ gi = 0
    /\ matches = <<>>
    /\ failed_cols = {}

\* The configured rules the index is built from.
RawRuleKinds ==
    { [keys |-> base \cup named \cup disabled,
       enabled |-> FALSE,
       sheet_name |-> place.sheet_name,
       search_column |-> place.search_column,
       search_value |-> Text(<<"a">>),
       log_columns |-> <<ColC>>,
       name |-> <<"N">>] :
         base \in {{"sheet_name", "search_column", "search_value", "log_columns"},
                   {"search_column", "search_value", "log_columns"}},
         named \in {{}, {"name"}},
         disabled \in {{}, {"enabled"}},
         place \in {[sheet_name |-> "S1", search_column |-> ColA],
                    [sheet_name |-> "S1", search_column |-> ColC],
                    [sheet_name |-> "S2", search_column |-> ColA]} }

SeqsFromZero(S, n) == UNION {[1..k -> S] : k \in 0..n}

MainStart ==
    /\ m_pc = "rules"
    /\ idx = 0
    /\ sheet_rules = <<>>
    /\ rule_count = 0
    /\ app = 0
    /\ apps = <<>>
    /\ file_i = 0
    /\ total_matches = 0
    /\ pf = NoCall
    /\ calls = <<>>
    /\ outcomes = <<>>
    /\ SearchIdle
    /\ ColumnIdle

RulesInit ==
    /\ CONFIG \in [search_rules : SeqsFromZero(RawRuleKinds, MaxRules)]
    /\ excel_files = <<1>>
    /\ MainStart

RulesNext == BuildRule \/ CheckRules

SpecRules == RulesInit /\ [][RulesNext]_vars

(***************************************************************************)
(* Properties of the rule index.                                           *)
(***************************************************************************)
Configured == CONFIG.search_rules

\* The rule at position i (from 1) is neither disabled nor without a sheet name.
Kept(i) ==
    /\ ~("enabled" \in Configured[i].keys /\ ~Configured[i].enabled)
    /\ "sheet_name" \in Configured[i].keys
    /\ Configured[i].sheet_name # ""

InGroup(i, s, c) ==
    Kept(i) /\ Configured[i].sheet_name = s /\ Configured[i].search_column = c

\* The positions of the kept rules of sheet s and column c, in configuration order.
PositionsOf(s, c) ==
    SelectSeq([i \in 1..Len(Configured) |-> i], LAMBDA i : InGroup(i, s, c))

\* The display name of the rule at position i (from 1).
DisplayName(i) ==
    IF "name" \in Configured[i].keys
    THEN Configured[i].name
    ELSE <<"R", "u", "l", "e", " ", Digits[i + 1]>>

ExpectedGroup(s, c) ==
    LET at == PositionsOf(s, c)
    IN [k \in 1..Len(at) |->
           [rule_name |-> DisplayName(at[k]),
            search_value |-> Configured[at[k]].search_value,
            log_columns |-> Configured[at[k]].log_columns]]

DistinctKeys(d) == \A i, j \in 1..Len(d) : d[i].key = d[j].key => i = j

IndexBuilt == m_pc \in {"aborted", "start_excel"}

\* C10: once the index is built, no sheet and no (sheet, column) has two groups; the
\* group of a sheet and column holds exactly the kept rules of that sheet and
\* column, in configuration order, an unnamed rule under "Rule {position}" with its
\* 1-based position in the full list; and the groups of a sheet come in the order
\* of their first rules.
C10_GroupingIsStable ==
    IndexBuilt =>
        /\ DistinctKeys(sheet_rules)
        /\ \A n \in 1..Len(sheet_rules) :
              LET s == sheet_rules[n].key
                  by_col == sheet_rules[n].val
              IN /\ DistinctKeys(by_col)
                 /\ by_col # <<>>
                 /\ \A g \in 1..Len(by_col) :
                       /\ by_col[g].val # <<>>
                       /\ by_col[g].val = ExpectedGroup(s, by_col[g].key)
                 /\ \A g, h \in 1..Len(by_col) :
                       g < h => PositionsOf(s, by_col[g].key)[1]
                                    < PositionsOf(s, by_col[h].key)[1]
        /\ \A i \in 1..Len(Configured) :
              Kept(i) =>
                  /\ DictHas(sheet_rules, Configured[i].sheet_name)
                  /\ DictHas(DictGet(sheet_rules, Configured[i].sheet_name),
                             Configured[i].search_column)

\* The first rule is skipped, the two after it share a sheet and a column and the
\* last has no name; another state has two groups on one sheet.
C10_Witness ==
    /\ IndexBuilt
    /\ Len(Configured) = 3
    /\ ~Kept(1)
    /\ Kept(2)
    /\ InGroup(3, Configured[2].sheet_name, Configured[2].search_column)
    /\ "name" \notin Configured[3].keys
    /\ Len(sheet_rules) = 1
    /\ Len(sheet_rules[1].val) = 1
    /\ Len(sheet_rules[1].val[1].val) = 2
    /\ sheet_rules[1].val[1].val[2].rule_name = <<"R", "u", "l", "e", " ", "3">>

(***************************************************************************)
(* search_sheet_optimized as process_excel_file calls it: the whole         *)
(* function, given what the collaborator does (the used range, and the set  *)
(* of groups, by position, whose reads raise).                              *)
(***************************************************************************)
RECURSIVE SearchGroups(_, _, _, _, _)
SearchGroups(sh, rbsc, raised, n, upto) ==
    IF upto = 0
    THEN <<>>
    ELSE SearchGroups(sh, rbsc, raised, n, upto - 1)
         \o GroupResult(IF upto \in raised THEN "raise" ELSE "ok",
                        sh, rbsc[upto].key, rbsc[upto].val, n)

search_sheet_optimized(sh, rbsc, mr, used_range, raised) ==
    IF used_range # "shape"
    THEN <<>>
    ELSE SearchGroups(sh, rbsc, raised, RowsToProcess(sh.rows, mr), Len(rbsc))

(***************************************************************************)
(* The spreadsheet application and the workbooks.                          *)
(***************************************************************************)
\* A started application instance: automatic calculation, events on, not quit.
FreshApp == [calc |-> "automatic", events |-> "True", quits |-> 0]

\* The sheets every workbook of the directory holds.
BookSheets ==
    << SheetOf("S1", << [A |-> Text(<<"A", " ">>), C |-> Text(<<" ", "x", " ">>)],
                        [A |-> Text(<<"b">>),      C |-> Text(<<"X">>)] >>),
       SheetOf("S2", << [A |-> Text(<<"A", " ">>), C |-> None] >>) >>

\* CONFIG.get('max_rows_to_process', 300) for a configuration without the key
DefaultMaxRows == 300

(***************************************************************************)
(* main: the batch loop (lines 465-519).                                   *)
(***************************************************************************)
\* Lines 473-486 and the except clause of line 495: the shared instance is started;
\* a failure of xw.App or of the two settings after it sends main to the fallback
\* loop, a failure of the calculation settings is only logged.
StartExcel ==
    /\ m_pc = "start_excel"
    /\ \E outcome \in {"app_raises", "setup_raises", "calc_raises", "events_raises", "ok"} :
          /\ apps' = IF outcome = "app_raises"
                     THEN apps
                     ELSE Append(apps,
                                 [FreshApp EXCEPT
                                    !.calc = IF outcome \in {"events_raises", "ok"}
                                             THEN "manual" ELSE @,
                                    !.events = IF outcome = "ok" THEN "False" ELSE @])
          /\ app' = IF outcome = "app_raises" THEN 0 ELSE Len(apps) + 1
          /\ m_pc' = IF outcome \in {"app_raises", "setup_raises"} THEN "fallback" ELSE "loop"
    /\ file_i' = 1
    /\ UNCHANGED <<CONFIG, excel_files, idx, sheet_rules, rule_count, total_matches, pf,
                   calls, outcomes>>
    /\ UNCHANGED svars

\* Lines 488-492 and 502-505: the next file is passed to process_excel_file, with
\* the shared instance in the first loop and without one in the fallback loop.
CallFile ==
    /\ m_pc \in {"loop", "fallback"}
    /\ pf.pc = "idle"
    /\ file_i <= Len(excel_files)
    /\ pf' = [NoCall EXCEPT
                !.pc = "start_excel",
                !.file = excel_files[file_i],
                !.app = IF m_pc = "loop" THEN app ELSE 0,
                !.supplied = (m_pc = "loop"),
                !.entry_calc = IF m_pc = "loop" THEN apps[app].calc ELSE "None",
                !.entry_events = IF m_pc = "loop" THEN apps[app].events ELSE "None"]
    /\ calls' = Append(calls, excel_files[file_i])
    /\ UNCHANGED <<CONFIG, excel_files, m_pc, idx, sheet_rules, rule_count, app, apps,
                   file_i, total_matches, outcomes>>
    /\ UNCHANGED svars

(***************************************************************************)
(* process_excel_file (lines 224-366), one step per block of the function. *)
(* pf.app is the instance the call works with (0 is None); the fields from *)
(* failure on are history, kept to state the properties.                   *)
(***************************************************************************)
\* The outer handler missing: an error raised among the sheets leaves the function.
SheetErrorPropagates_Uncaught == TRUE

\* Lines 333-337: `except Exception` catches what the body raises and returns
\* all_matches, so nothing leaves the function.
SheetErrorPropagates == FALSE

Quit(as, a) == [as EXCEPT ![a].quits = @ + 1]

\* Lines 254-265: without an instance from the caller, start one.  xw.App may raise,
\* and so may the two settings after it; both are caught and the function returns.
PEF_StartExcel ==
    /\ pf.pc = "start_excel"
    /\ IF pf.app # 0
       THEN /\ pf' = [pf EXCEPT !.pc = "settings"]
            /\ apps' = apps
       ELSE \E outcome \in {"app_raises", "setup_raises", "ok"} :
               /\ apps' = IF outcome = "app_raises" THEN apps ELSE Append(apps, FreshApp)
               /\ pf' = [pf EXCEPT
                           !.app = IF outcome = "app_raises" THEN 0 ELSE Len(apps) + 1,
                           !.instance_created = (outcome # "app_raises"),
                           !.app_created = (outcome = "ok"),
                           !.failure = IF outcome = "ok" THEN "none" ELSE "start",
                           !.pc = IF outcome = "ok" THEN "settings" ELSE "finally"]
    /\ UNCHANGED <<CONFIG, excel_files, m_pc, idx, sheet_rules, rule_count, app, file_i,
                   total_matches, calls, outcomes>>
    /\ UNCHANGED svars

\* Lines 267-276: save and switch off calculation and events; any of the four
\* accesses may raise, which ends the block and is only logged.
PEF_Settings ==
    /\ pf.pc = "settings"
    /\ \E outcome \in {"get_calc_raises", "set_calc_raises", "get_events_raises",
                       "set_events_raises", "ok"} :
          LET a == apps[pf.app]
          IN /\ apps' = [apps EXCEPT
                           ![pf.app].calc =
                               IF outcome \in {"get_events_raises", "set_events_raises", "ok"}
                               THEN "manual" ELSE @,
                           ![pf.app].events = IF outcome = "ok" THEN "False" ELSE @]
             /\ pf' = [pf EXCEPT
                         !.calc_prev = IF outcome = "get_calc_raises" THEN "None" ELSE a.calc,
                         !.events_prev = IF outcome \in {"set_events_raises", "ok"}
                                         THEN a.events ELSE "None",
                         !.api_raised = (outcome # "ok"),
                         !.pc = "open"]
    /\ UNCHANGED <<CONFIG, excel_files, m_pc, idx, sheet_rules, rule_count, app, file_i,
                   total_matches, calls, outcomes>>
    /\ UNCHANGED svars

\* Lines 278-290: open the workbook; on failure quit an instance of our own and
\* return.
PEF_Open ==
    /\ pf.pc = "open"
    /\ \E outcome \in {"raises", "ok"} :
          IF outcome = "ok"
          THEN /\ pf' = [pf EXCEPT !.wb = "open", !.sheet_i = 1, !.pc = "sheets"]
               /\ apps' = apps
          ELSE /\ pf' = [pf EXCEPT
                           !.failure = "open",
                           !.quit_attempts = IF pf.app_created THEN @ + 1 ELSE @,
                           !.pc = "finally"]
               /\ apps' = IF pf.app_created THEN Quit(apps, pf.app) ELSE apps
    /\ UNCHANGED <<CONFIG, excel_files, m_pc, idx, sheet_rules, rule_count, app, file_i,
                   total_matches, calls, outcomes>>
    /\ UNCHANGED svars

\* Lines 292-320: one sheet of the workbook.  Reaching the sheet or its name may
\* raise (outer handler); a sheet without rules is skipped; otherwise the sheet is
\* searched and its matches are logged and added to all_matches.
PEF_Sheet ==
    /\ pf.pc = "sheets"
    /\ pf.sheet_i <= Len(BookSheets)
    /\ \E outcome \in {"raises", "ok"} :
          LET sh == BookSheets[pf.sheet_i]
          IN IF outcome = "raises"
             THEN pf' = [pf EXCEPT !.failure = "sheets",
                                   !.propagates = SheetErrorPropagates,
                                   !.pc = "finally"]
             ELSE IF ~DictHas(sheet_rules, sh.name)
                  THEN pf' = [pf EXCEPT !.sheet_i = @ + 1]
                  ELSE LET rbsc == DictGet(sheet_rules, sh.name)
                       IN \E used_range \in {"shape", "none", "raise"},
                             raised \in SUBSET (1..Len(rbsc)) :
                             pf' = [pf EXCEPT
                                      !.all_matches =
                                          @ \o search_sheet_optimized(sh, rbsc, DefaultMaxRows,
                                                                      used_range, raised),
                                      !.sheet_i = @ + 1]
    /\ UNCHANGED <<CONFIG, excel_files, m_pc, idx, sheet_rules, rule_count, app, apps,
                   file_i, total_matches, calls, outcomes>>
    /\ UNCHANGED svars

\* Lines 322-331: after the last sheet, put back what was saved; a failing
\* assignment ends the block and is only logged.
PEF_Restore ==
    /\ pf.pc = "sheets"
    /\ pf.sheet_i > Len(BookSheets)
    /\ \E outcome \in {"set_calc_raises", "set_events_raises", "ok"} :
          /\ outcome = "set_calc_raises" => pf.calc_prev # "None"
          /\ outcome = "set_events_raises" => pf.events_prev # "None"
          /\ apps' = [apps EXCEPT
                        ![pf.app].calc =
                            IF pf.calc_prev # "None" /\ outcome # "set_calc_raises"
                            THEN pf.calc_prev ELSE @,
                        ![pf.app].events =
                            IF pf.events_prev # "None" /\ outcome = "ok"
                            THEN pf.events_prev ELSE @]
          /\ pf' = [pf EXCEPT !.api_raised = @ \/ (outcome # "ok"), !.pc = "finally"]
    /\ UNCHANGED <<CONFIG, excel_files, m_pc, idx, sheet_rules, rule_count, app, file_i,
                   total_matches, calls, outcomes>>
    /\ UNCHANGED svars

\* Lines 339-366: the finally clause.  An open workbook is closed and an instance of
\* our own is quit; a close or quit that raises is logged and tried again through
\* the raw interface, which changes nothing the model keeps.
PEF_Finally ==
    /\ pf.pc = "finally"
    /\ pf' = [pf EXCEPT
                !.close_attempts = IF pf.wb = "open" THEN @ + 1 ELSE @,
                !.quit_attempts = IF pf.app # 0 /\ pf.app_created THEN @ + 1 ELSE @,
                !.pc = "returned"]
    /\ apps' = IF pf.app # 0 /\ pf.app_created THEN Quit(apps, pf.app) ELSE apps
    /\ UNCHANGED <<CONFIG, excel_files, m_pc, idx, sheet_rules, rule_count, app, file_i,
                   total_matches, calls, outcomes>>
    /\ UNCHANGED svars

\* Lines 492-493 and 505-506: the call is over.  Its matches are counted and the
\* loop goes to the next file; an exception leaving the call would end the first
\* loop in the except clause of line 495, which starts the fallback loop from the
\* first file, and would leave main from the fallback loop.
PEF_Return ==
    /\ pf.pc = "returned"
    /\ IF pf.propagates
       THEN /\ m_pc' = IF m_pc = "loop" THEN "fallback" ELSE "finally"
            /\ file_i' = 1
            /\ total_matches' = total_matches
       ELSE /\ m_pc' = m_pc
            /\ file_i' = file_i + 1
            /\ total_matches' = total_matches + Len(pf.all_matches)
    /\ outcomes' = Append(outcomes, [file |-> pf.file, failure |-> pf.failure,
                                     found |-> Len(pf.all_matches)])
    /\ pf' = NoCall
    /\ UNCHANGED <<CONFIG, excel_files, idx, sheet_rules, rule_count, app, apps, calls>>
    /\ UNCHANGED svars

\* The end of either loop.
LoopEnd ==
    /\ m_pc \in {"loop", "fallback"}
    /\ pf.pc = "idle"
    /\ file_i > Len(excel_files)
    /\ m_pc' = "finally"
    /\ UNCHANGED <<CONFIG, excel_files, idx, sheet_rules, rule_count, app, apps, file_i,
                   total_matches, pf, calls, outcomes>>
    /\ UNCHANGED svars

\* Lines 508-528: the shared instance, if there is one, is quit; the summary.
MainFinally ==
    /\ m_pc = "finally"
    /\ apps' = IF app # 0 THEN Quit(apps, app) ELSE apps
    /\ m_pc' = "done"
    /\ UNCHANGED <<CONFIG, excel_files, idx, sheet_rules, rule_count, app, file_i,
                   total_matches, pf, calls, outcomes>>
    /\ UNCHANGED svars

\* The configurations the whole program is run on.
RuleOn(keys, sheet_name, search_column) ==
    [keys |-> keys \cup {"search_column", "search_value", "log_columns"},
     enabled |-> FALSE,
     sheet_name |-> sheet_name,
     search_column |-> search_column,
     search_value |-> Text(<<"a">>),
     log_columns |-> <<ColC>>,
     name |-> <<"N">>]

MainConfigs ==
    { <<>>,
      <<RuleOn({"sheet_name", "enabled"}, "S1", ColA)>>,
      <<RuleOn({}, "", ColA), RuleOn({"sheet_name", "enabled", "name"}, "S2", ColA)>>,
      <<RuleOn({"sheet_name"}, "S1", ColA)>>,
      <<RuleOn({"sheet_name", "enabled"}, "S1", ColC),
        RuleOn({"sheet_name"}, "S1", ColA),
        RuleOn({"sheet_name", "name"}, "S2", ColA)>> }

Init ==
    /\ CONFIG \in [search_rules : MainConfigs]
    /\ \E n \in 1..MaxFiles : excel_files = [i \in 1..n |-> i]
    /\ MainStart

Next ==
    \/ BuildRule
    \/ CheckRules
    \/ StartExcel
    \/ CallFile
    \/ PEF_StartExcel
    \/ PEF_Settings
    \/ PEF_Open
    \/ PEF_Sheet
    \/ PEF_Restore
    \/ PEF_Finally
    \/ PEF_Return
    \/ LoopEnd
    \/ MainFinally

Spec == Init /\ [][Next]_vars

(***************************************************************************)
(* Properties of main and process_excel_file.                              *)
(***************************************************************************)
\* Every configured rule is disabled or has no sheet name.
NoRuleRemains == \A i \in 1..Len(Configured) : ~Kept(i)

\* C5: when no rule remains after the disabled rules and the rules without a sheet
\* name are skipped, main never starts the application and never passes a file to
\* process_excel_file: it is still reading the rules, or it has returned.
C5_NoRulesAbortsBeforeAnyFile ==
    NoRuleRemains =>
        /\ calls = <<>>
        /\ apps = <<>>
        /\ pf = NoCall
        /\ m_pc \in {"rules", "aborted"}

\* main has returned on a configuration that has rules, none of which remains.
C5_Witness ==
    /\ m_pc = "aborted"
    /\ Len(Configured) = 2
    /\ NoRuleRemains
    /\ calls = <<>>

Returned == pf.pc = "returned"

\* C6 as stated: a call in which the application could not be started, the workbook
\* could not be opened or an exception was raised among the sheets returns to the
\* loop, with no match to add to the total.
C6_FailedFileContributesNothing ==
    (Returned /\ pf.failure # "none") =>
        /\ ~pf.propagates
        /\ pf.all_matches = <<>>

NoDuplicates(s) == \A i, j \in 1..Len(s) : s[i] = s[j] => i = j

RECURSIVE SumFound(_)
SumFound(os) == IF os = <<>> THEN 0 ELSE os[Len(os)].found + SumFound(SubSeq(os, 1, Len(os) - 1))

\* C6 amended: a failed call never lets its exception reach the batch loop; it adds
\* nothing to the total when the application could not be started or the workbook
\* could not be opened, and only the matches of the sheets searched before the
\* exception otherwise; no file is passed to process_excel_file twice, and when
\* main is done every file of the listing was passed once, in order, and the total
\* is the sum of what the calls returned.
C6_FailureStaysInsideTheCall ==
    /\ Returned => ~pf.propagates
    /\ (Returned /\ pf.failure \in {"start", "open"}) => pf.all_matches = <<>>
    /\ (Returned /\ pf.failure = "sheets") =>
          \A i \in 1..Len(pf.all_matches) :
              \E n \in 1..(pf.sheet_i - 1) : pf.all_matches[i].sheet_name = BookSheets[n].name
    /\ NoDuplicates(calls)
    /\ m_pc = "done" =>
          /\ calls = excel_files
          /\ Len(outcomes) = Len(excel_files)
          /\ total_matches = SumFound(outcomes)

\* main is done; the first file failed among its sheets after a match was found, and
\* the file after it was processed without failure.
C6_Witness ==
    /\ m_pc = "done"
    /\ Len(outcomes) >= 2
    /\ outcomes[1].failure = "sheets"
    /\ outcomes[1].found > 0
    /\ outcomes[2].failure = "none"
    /\ outcomes[2].found > 0

\* C7: when process_excel_file returns, a workbook that was opened has had a close
\* attempted, the instance has had a quit attempted if and only if this call created
\* it, and an instance supplied by the caller was not quit by the call.
C7_ReleasedOnEveryReturn ==
    Returned =>
        /\ pf.wb = "open" => pf.close_attempts >= 1
        /\ (pf.quit_attempts >= 1) <=> pf.instance_created
        /\ pf.supplied => pf.quit_attempts = 0

\* C9: when process_excel_file returns from a call on a reused instance in which no
\* access to the settings raised, the instance's calculation mode and event setting
\* are the ones it had when the call began.
C9_SettingsRestoredOnEveryReturn ==
    (Returned /\ pf.supplied /\ ~pf.api_raised) =>
        /\ apps[pf.app].calc = pf.entry_calc
        /\ apps[pf.app].events = pf.entry_events

(***************************************************************************)
(* column_letter_to_index on its own: the labels are handed to it one      *)
(* after the other in spreadsheet order, each in some mix of cases.        *)
(***************************************************************************)
\* The spellings of an upper-case label in upper and lower case.
Casings(label) ==
    {[i \in 1..Len(label) |->
         IF i \in lower
         THEN LowerLetters[CHOOSE k \in 1..26 : Letters[k] = label[i]]
         ELSE label[i]] : lower \in SUBSET (1..Len(label))}

\* The label after this one in a spreadsheet: A, B, ..., Z, AA, AB, ..., AZ, BA, ...
RECURSIVE NextLabel(_)
NextLabel(label) ==
    IF label = <<>>
    THEN <<"A">>
    ELSE LET front == SubSeq(label, 1, Len(label) - 1)
             last == label[Len(label)]
         IN IF last = "Z"
            THEN NextLabel(front) \o <<"A">>
            ELSE front \o <<Letters[(CHOOSE i \in 1..26 : Letters[i] = last) + 1]>>

ColumnsInit ==
    /\ col_label = <<"A">>
    /\ col_letter \in Casings(<<"A">>)
    /\ col_rank = 0
    /\ col_index = 0
    /\ col_pc = "call"
    /\ SearchIdle
    /\ CONFIG = [search_rules |-> <<>>]
    /\ excel_files = <<>>
    /\ m_pc = "idle"
    /\ idx = 0
    /\ sheet_rules = <<>>
    /\ rule_count = 0
    /\ app = 0
    /\ apps = <<>>
    /\ file_i = 0
    /\ total_matches = 0
    /\ pf = NoCall
    /\ calls = <<>>
    /\ outcomes = <<>>

\* Lines 100-106: the function applied to the label.
ConvertColumn ==
    /\ col_pc = "call"
    /\ col_index' = column_letter_to_index(col_letter)
    /\ col_pc' = "returned"
    /\ UNCHANGED <<col_letter, col_label, col_rank>>
    /\ UNCHANGED <<sheet, rules_by_search_column, max_rows, s_pc, rows_to_process, gi,
                   matches, failed_cols>>
    /\ UNCHANGED <<CONFIG, excel_files, m_pc, idx, sheet_rules, rule_count, app, apps,
                   file_i, total_matches, pf, calls, outcomes>>

\* The next label of the spreadsheet is passed, in any mix of cases.
NextColumn ==
    /\ col_pc = "returned"
    /\ Len(NextLabel(col_label)) <= MaxLabelLen
    /\ col_label' = NextLabel(col_label)
    /\ col_letter' \in Casings(NextLabel(col_label))
    /\ col_rank' = col_rank + 1
    /\ col_pc' = "call"
    /\ UNCHANGED col_index
    /\ UNCHANGED <<sheet, rules_by_search_column, max_rows, s_pc, rows_to_process, gi,
                   matches, failed_cols>>
    /\ UNCHANGED <<CONFIG, excel_files, m_pc, idx, sheet_rules, rule_count, app, apps,
                   file_i, total_matches, pf, calls, outcomes>>

ColumnsNext == ConvertColumn \/ NextColumn

SpecColumns == ColumnsInit /\ [][ColumnsNext]_vars

\* C11: for a label of one or two letters in upper or lower case, the index returned
\* is the label's place in spreadsheet order counted from zero (so the index grows
\* by one from each label to the next and takes each value once): 0..25 for one
\* letter, 26..701 for two, with A at 0, Z at 25 and AA at 26.
C11_IndexIsSpreadsheetPosition ==
    col_pc = "returned" =>
        /\ col_index = col_rank
        /\ Len(col_label) = 1 => col_index \in 0..25
        /\ Len(col_label) = 2 => col_index \in 26..701
        /\ col_label = <<"A">> => col_index = 0
        /\ col_label = <<"Z">> => col_index = 25
        /\ col_label = <<"A", "A">> => col_index = 26

\* The last label, ZZ, was passed as "zZ" and converted.
C11_Witness ==
    /\ col_pc = "returned"
    /\ col_label = <<"Z", "Z">>
    /\ col_letter = <<"z", "Z">>
    /\ col_index = 701

====
